---- MODULE Spec2Model ----
(***************************************************************************)
(* A model of the embedding index / retrieval engine (EmbeddingManager)    *)
(* and of the conversation store (ChatHistoryManager) of simple-rag-script.*)
(*                                                                         *)
(* Each manager owns one sqlite3 connection.  A connection is modelled by  *)
(* the committed tables, the tables as the connection sees them (its       *)
(* uncommitted writes included) and a flag telling whether it has a        *)
(* transaction open.  Every public method is one action; storage, file and *)
(* provider failures are inputs of the action.                             *)
(***************************************************************************)
EXTENDS Integers, Sequences, FiniteSets, TLC

VARIABLES
    mode,       \* EmbeddingManager.mode: "local" or "api", fixed at construction
    topK,       \* config embedding_settings.top_k_chunks, fixed at start-up
    files,      \* committed rows of table files: [id, path, content_hash]
    chunks,     \* committed rows of table chunks, in rowid order
    vfiles,     \* table files as EmbeddingManager.conn sees it
    vchunks,    \* table chunks as EmbeddingManager.conn sees it
    etx,        \* EmbeddingManager.conn has a transaction open
    idx,        \* history: per path, the content of the latest index_file call that
                \* returned true since purge_embeddings was last called
    purged,     \* history: purge_embeddings returned true, no index_file has since
    last,       \* history: the latest EmbeddingManager call, its inputs and result
    history,    \* committed rows of table chat_history, in rowid order
    vhistory,   \* table chat_history as ChatHistoryManager.conn sees it
    htx,        \* ChatHistoryManager.conn has a transaction open
    clock,      \* CURRENT_TIMESTAMP, in whole seconds
    hlast,      \* history: the latest ChatHistoryManager call, its inputs and result
    current_context,    \* main: the active context
    is_context_enabled, \* main: conversation history is read and recorded
    session_settings,   \* main: the settings of the session, parameter -> value
    config,     \* llm_settings of config.json, parameter -> value
    cpc,        \* main: where the console is, "prompt" or inside a command
    clast       \* history: the latest console input and what became of it

evars == <<mode, topK, files, chunks, vfiles, vchunks, etx, idx, purged, last>>
hvars == <<history, vhistory, htx, clock, hlast>>
cvars == <<current_context, is_context_enabled, session_settings, config, cpc, clast>>
vars == <<mode, topK, files, chunks, vfiles, vchunks, etx, idx, purged, last,
          history, vhistory, htx, clock, hlast,
          current_context, is_context_enabled, session_settings, config, cpc, clast>>

(***************************************************************************)
(* Bounds of the model.                                                    *)
(***************************************************************************)
MaxChunks == 2
MaxFileId == 2
MaxTopK == 2
MaxStored == 3
MaxTurns == 3
MaxClock == 2
MaxLimit == 2

(***************************************************************************)
(* Inputs.  A text is a sequence of characters.                            *)
(***************************************************************************)
NL == "\n"
Whitespace == {" ", NL}

Paths == {"p1", "p2"}

\* The file contents index_file reads: an empty file, two paragraphs, and a file
\* of a blank paragraph and, after three newlines, one more.
Contents ==
    { << >>,
      <<"a", NL, NL, "b">>,
      <<" ", NL, NL, NL, "c">> }

NoContent == <<"?">>

Letters == {"a", "b", "c", "d", "z"}

Questions == {<<"a">>, <<"e">>, <<"z">>}

Modes == {"local", "api"}

Min(a, b) == IF a < b THEN a ELSE b

SetMax(S) == CHOOSE m \in S : \A n \in S : n <= m

SetMin(S) == CHOOSE m \in S : \A n \in S : m <= n

Reverse(s) == [i \in 1..Len(s) |-> s[Len(s) + 1 - i]]

(***************************************************************************)
(* Hashing and chunking.                                                   *)
(***************************************************************************)
CharCode(ch) ==
    CASE ch = "a" -> 1 [] ch = "b" -> 2 [] ch = "c" -> 3 [] ch = "d" -> 4
      [] ch = "e" -> 5 [] ch = "z" -> 6 [] ch = " " -> 7 [] OTHER -> 8

\* sha256(content).hexdigest(): a digest that no two contents share (collisions are
\* not modelled), here the codes of the characters of the content.
GetFileHash(content) == [i \in 1..Len(content) |-> CharCode(content[i])]

\* str.split('\n\n'): left to right, non-overlapping; an empty text gives [''].
RECURSIVE SplitFrom(_, _, _)
SplitFrom(s, i, cur) ==
    IF i > Len(s) THEN <<cur>>
    ELSE IF i < Len(s) /\ s[i] = NL /\ s[i + 1] = NL
         THEN <<cur>> \o SplitFrom(s, i + 2, << >>)
         ELSE SplitFrom(s, i + 1, Append(cur, s[i]))

Split(s) == SplitFrom(s, 1, << >>)

\* chunk.strip() is empty
IsBlank(c) == \A i \in 1..Len(c) : c[i] \in Whitespace

\* [chunk for chunk in content.split('\n\n') if chunk.strip()]
ChunksOf(content) == SelectSeq(Split(content), LAMBDA c : ~IsBlank(c))

(***************************************************************************)
(* The embedding provider: a deterministic encoder of two dimensions.      *)
(* The vector of a text is decided by its first non-blank character.       *)
(***************************************************************************)
NoEmbedding == << >>

Encode(text) ==
    LET at == {i \in 1..Len(text) : text[i] \notin Whitespace}
        ch == IF at = {} THEN " " ELSE text[SetMin(at)]
    IN  CASE ch = "a" -> <<1, 0>>
          [] ch = "b" -> <<0, 1>>
          [] ch = "c" -> <<-1, 0>>
          [] ch = "d" -> <<2, 0>>
          [] ch = "e" -> <<1, 1>>
          [] OTHER -> <<0, 0>>

\* What one POST to the embedding endpoint can come back with: a well-formed
\* answer, a transport error or timeout, an HTTP error status, a body that is not
\* JSON, JSON without the key "data", "data": [], "data": null.
ApiResponses ==
    {"embedding", "network_error", "http_error", "not_json", "no_data_key",
     "empty_data", "null_data"}

\* _get_embedding_from_api: RequestException (raised by post and raise_for_status),
\* KeyError and IndexError are caught and give None.  json() on a body that is not
\* JSON raises requests' JSONDecodeError, a RequestException from requests 2.27 on
\* and a plain ValueError before, so either outcome is possible.  None[0] is a
\* TypeError, which no clause catches.
ApiOutcomes(response) ==
    CASE response = "embedding" -> {"ok"}
      [] response \in {"network_error", "http_error"} -> {"none"}
      [] response = "not_json" -> {"none", "raise"}
      [] response \in {"no_data_key", "empty_data"} -> {"none"}
      [] response = "null_data" -> {"raise"}

\* get_embedding for one request; outcome "ok", "none" (the api client caught the
\* failure and returned None) or "raise" (an exception leaves get_embedding).
EmbeddingOutcomes(m) ==
    IF m = "local" THEN {"ok", "raise"}
    ELSE UNION {ApiOutcomes(r) : r \in ApiResponses}

GetEmbedding(text, outcome) == IF outcome = "ok" THEN Encode(text) ELSE NoEmbedding

(***************************************************************************)
(* Cosine similarity on integer vectors, compared exactly: the similarity  *)
(* of chunk a to query q is Dot(a,q) / (|a| |q|), and |q| is common to all *)
(* chunks, so the order is that of Dot(a,q) / |a|.                         *)
(***************************************************************************)
RECURSIVE DotUpTo(_, _, _)
DotUpTo(a, b, n) == IF n = 0 THEN 0 ELSE DotUpTo(a, b, n - 1) + a[n] * b[n]

\* np.dot of two vectors of one length
Dot(a, b) == DotUpTo(a, b, Len(a))

\* np.linalg.norm(v) squared
Norm2(v) == Dot(v, v)

\* similarity of a to q  <  similarity of b to q
SimLT(a, b, q) ==
    LET da == Dot(a, q)
        db == Dot(b, q)
    IN  IF da < 0 /\ db >= 0 THEN TRUE
        ELSE IF da >= 0 /\ db < 0 THEN FALSE
        ELSE IF da >= 0 THEN da * da * Norm2(b) < db * db * Norm2(a)
        ELSE da * da * Norm2(b) > db * db * Norm2(a)

SimEQ(a, b, q) == ~SimLT(a, b, q) /\ ~SimLT(b, a, q)

\* A variant of ValidIndices that tests c_norms >= 0 and so keeps every row.
ValidIndicesNonNegative(ch) == [i \in 1..Len(ch) |-> i]

\* np.where(c_norms > 0)[0]: the positions of the rows that can be scored
ValidIndices(ch) ==
    SelectSeq([i \in 1..Len(ch) |-> i], LAMBDA i : Norm2(ch[i].embedding) > 0)

IndexOrders(n) == {f \in [1..n -> 1..n] : \A i, j \in 1..n : f[i] = f[j] => i = j}

\* np.argsort(similarities): an ascending order of the similarities.  The default
\* kind is not a stable sort, so every order of equal similarities is an outcome.
ArgSorts(embs, q) ==
    {f \in IndexOrders(Len(embs)) :
        \A i, j \in 1..Len(embs) : i < j => ~SimLT(embs[f[j]], embs[f[i]], q)}

\* s[-k:], where -0 is 0 and the slice is then all of s
LastK(s, k) == IF k = 0 THEN s ELSE SubSeq(s, Len(s) - k + 1, Len(s))

\* argsort(...)[-actual_top_k:][::-1]
TopKSlice(sorted, k) == Reverse(LastK(sorted, k))

\* the stored vectors are not all of one length
Ragged(ch) ==
    \E i, j \in 1..Len(ch) : Len(ch[i].embedding) # Len(ch[j].embedding)

\* How find_relevant_chunks can end once the question is embedded: it returns a
\* list, or numpy raises.  np.array of rows of different lengths raises ValueError
\* (numpy before 1.24 builds a one-dimensional array of objects instead, and then
\* norm(..., axis=1) raises unless the zero-norm question returned first);
\* np.dot of an (n, d) matrix and a vector of another length raises ValueError.
FindEndings(ch, qe) ==
    IF qe = NoEmbedding \/ Len(ch) = 0 THEN {"return"}
    ELSE IF Ragged(ch)
         THEN IF Norm2(qe) = 0 THEN {"return", "raise"} ELSE {"raise"}
    ELSE IF Norm2(qe) = 0 \/ ValidIndices(ch) = << >> THEN {"return"}
    ELSE IF Len(ch[1].embedding) # Len(qe) THEN {"raise"}
    ELSE {"return"}

\* find_relevant_chunks after the question was embedded: the results it can return,
\* each a sequence of positions in ch (the code returns the texts at these positions).
FindResults(ch, qe, k) ==
    IF qe = NoEmbedding THEN {<< >>}
    ELSE IF Len(ch) = 0 THEN {<< >>}
    ELSE IF Norm2(qe) = 0 THEN {<< >>}
    ELSE LET valid == ValidIndices(ch)
             embs == [i \in 1..Len(valid) |-> ch[valid[i]].embedding]
             actual == Min(k, Len(valid))
         IN  IF Len(valid) = 0 THEN {<< >>}
             ELSE {[i \in 1..Len(top) |-> valid[top[i]]] :
                       top \in {TopKSlice(f, actual) : f \in ArgSorts(embs, qe)}}

(***************************************************************************)
(* The tables files and chunks.                                            *)
(***************************************************************************)
\* sqlite3.connect() leaves PRAGMA foreign_keys at its default, off: the
\* ON DELETE CASCADE of table chunks is declared and not enforced.
ForeignKeys == FALSE

\* the rowid of a new row of an INTEGER PRIMARY KEY table without AUTOINCREMENT
NextRowId(ids) == IF ids = {} THEN 1 ELSE SetMax(ids) + 1

ChunkIds(ch) == {ch[i].id : i \in 1..Len(ch)}

\* DELETE FROM files WHERE path=?
DeleteFileRows(f, p) == {r \in f : r.path # p}

\* what the delete of the file rows does to table chunks
CascadeChunks(ch, f, p) ==
    IF ForeignKeys
    THEN SelectSeq(ch, LAMBDA c : \A r \in f : r.path = p => c.file_id # r.id)
    ELSE ch

\* INSERT INTO files (path, content_hash); cur.lastrowid
InsertedFileId(f) == NextRowId({r.id : r \in f})

InsertFile(f, p, h) == f \cup {[id |-> InsertedFileId(f), path |-> p, content_hash |-> h]}

\* INSERT INTO chunks (file_id, chunk_text, embedding), one row per text that has an
\* embedding (embedding is not None).
RECURSIVE InsertChunks(_, _, _, _)
InsertChunks(ch, fid, texts, embs) ==
    IF texts = << >> THEN ch
    ELSE IF Head(embs) = NoEmbedding
         THEN InsertChunks(ch, fid, Tail(texts), Tail(embs))
         ELSE InsertChunks(
                  Append(ch, [id |-> NextRowId(ChunkIds(ch)), file_id |-> fid,
                              chunk_text |-> Head(texts), embedding |-> Head(embs)]),
                  fid, Tail(texts), Tail(embs))

\* A variant of _is_file_indexed_and_unchanged with the comparison inverted
\* (row[0] != file_hash).
IsFileIndexedAndChanged(f, p, h) == \E r \in f : r.path = p /\ r.content_hash # h

\* SELECT content_hash FROM files WHERE path=?; row is not None and row[0] == file_hash
IsFileIndexedAndUnchanged(f, p, h) == \E r \in f : r.path = p /\ r.content_hash = h

\* A variant of the except clause of index_file without conn.rollback(): the
\* connection keeps its uncommitted writes.
NoRollback(committed, view) == view

\* conn.rollback(): the connection sees the committed table again
Rollback(committed, view) == committed

\* DELETE FROM chunks;
DeleteAllChunks(ch) == << >>

\* A variant of DELETE FROM files that keeps the row of the lowest id.
DeleteAllFilesButFirst(f) == {r \in f : \A o \in f : r.id <= o.id}

\* DELETE FROM files;
DeleteAllFiles(f) == {}

\* SELECT COUNT(id) FROM files
CountFiles(f) == Cardinality(f)

(***************************************************************************)
(* EmbeddingManager: the state after construction and the public methods.  *)
(***************************************************************************)
\* embedding_settings.get("top_k_chunks", 5)
DefaultTopK == 5

NoCall ==
    [op |-> "none", path |-> "", force |-> FALSE,
     fault |-> "none", lost |-> FALSE, ret |-> FALSE, reqs |-> 0,
     unchanged |-> FALSE, repeat |-> FALSE, question |-> << >>, result |-> << >>,
     count |-> 0, raised |-> FALSE, held |-> FALSE]

InitEmbedding ==
    /\ mode \in Modes
    /\ topK = DefaultTopK
    /\ files = {}
    /\ chunks = << >>
    /\ vfiles = {}
    /\ vchunks = << >>
    /\ etx = FALSE
    /\ idx = [p \in Paths |-> NoContent]
    /\ purged = FALSE
    /\ last = NoCall

\* Where index_file can fail: reading the file, one of its SQL statements, the
\* embedding call (an exception that leaves get_embedding), the commit.
IndexFaults ==
    {"none", "read", "delete", "insert_file", "embed", "insert_chunks", "commit"}

\* The statements of index_file after the skip test, in the order the code runs
\* them; in the api mode "embed" and "insert_chunks" alternate, chunk by chunk.
IndexSteps == <<"delete", "insert_file", "embed", "insert_chunks", "commit">>

\* sqlite3 with the default isolation_level begins a transaction before a DELETE or
\* an INSERT, and conn.commit() ends it.
BeginsTransaction(step) == step \in {"delete", "insert_file", "insert_chunks"}

\* a transaction is open on the connection when the step at position n starts
RECURSIVE TransactionOpenAt(_, _)
TransactionOpenAt(n, open) ==
    IF n <= 1 THEN open
    ELSE LET before == TransactionOpenAt(n - 1, open)
         IN  IF IndexSteps[n - 1] = "commit" THEN FALSE
             ELSE before \/ BeginsTransaction(IndexSteps[n - 1])

StepOf(step) == CHOOSE n \in 1..Len(IndexSteps) : IndexSteps[n] = step

\* index_file(file_path, force).  content is what open().read() returns, fault the
\* step that raises, lost the chunks (by position) whose api request returned None.
IndexFile(p, force, content, fault, lost) ==
    LET h == GetFileHash(content)
        texts == ChunksOf(content)
        skip == ~force /\ IsFileIndexedAndUnchanged(vfiles, p, h)
        f1 == DeleteFileRows(vfiles, p)
        c1 == CascadeChunks(vchunks, vfiles, p)
        fid == InsertedFileId(f1)
        f2 == InsertFile(f1, p, h)
        embs == [i \in 1..Len(texts) |->
                    GetEmbedding(texts[i], IF i \in lost THEN "none" ELSE "ok")]
        c2 == InsertChunks(c1, fid, texts, embs)
        \* the api loop raises on its last request, the rows before it are inserted
        cE == IF mode = "local" THEN c1
              ELSE InsertChunks(c1, fid, SubSeq(texts, 1, Len(texts) - 1),
                                SubSeq(embs, 1, Len(texts) - 1))
        \* the connection's tables when the exception is raised
        pf == IF fault \in {"read", "delete"} THEN vfiles
              ELSE IF fault = "insert_file" THEN f1 ELSE f2
        pc == IF fault \in {"read", "delete"} THEN vchunks
              ELSE IF fault \in {"insert_file", "insert_chunks"} THEN c1
              ELSE IF fault = "embed" THEN cE ELSE c2
        ok == fault = "none" /\ ~skip
        requests == IF skip \/ fault \in {"read", "delete", "insert_file"} \/ texts = << >>
                    THEN 0
                    ELSE IF mode = "local" THEN 1 ELSE Len(texts)
    IN  /\ skip /\ fault # "read" => fault = "none"
        /\ fault = "embed" => "raise" \in EmbeddingOutcomes(mode)
        /\ lost # {} => "none" \in EmbeddingOutcomes(mode)
        /\ texts = << >> => fault \notin {"embed", "insert_chunks"}
        /\ lost # {} => mode = "api" /\ ~skip /\ fault \in {"none", "commit"}
        /\ lost \subseteq 1..Len(texts)
        /\ ~skip /\ fault # "read" =>
               Len(vchunks) + Len(texts) <= MaxChunks /\ fid <= MaxFileId
        /\ IF ok
           THEN /\ files' = f2
                /\ chunks' = c2
                /\ vfiles' = f2
                /\ vchunks' = c2
                /\ etx' = FALSE
           ELSE IF fault = "none"
           THEN UNCHANGED <<files, chunks, vfiles, vchunks, etx>>
           ELSE /\ vfiles' = Rollback(files, pf)
                /\ vchunks' = Rollback(chunks, pc)
                /\ etx' = FALSE
                /\ UNCHANGED <<files, chunks>>
        /\ idx' = IF ok THEN [idx EXCEPT ![p] = content] ELSE idx
        /\ purged' = (purged /\ ~ok)
        /\ last' = [NoCall EXCEPT
                        !.op = "index", !.path = p, !.force = force,
                        !.fault = (IF fault = "none" THEN "none" ELSE "raise"),
                        !.lost = (lost # {}),
                        \* an exception left get_embedding
                        !.raised = (fault = "embed"),
                        \* an embedding call was made with a transaction open
                        !.held = (requests > 0
                                  /\ TransactionOpenAt(StepOf("embed"), etx)),
                        !.ret = ok, !.reqs = requests,
                        \* the content is that of the latest call that returned true
                        !.unchanged = (idx[p] = content),
                        \* the call before was this call (path, force) and returned true
                        !.repeat = (last.op = "index" /\ last.path = p
                                    /\ last.force = force /\ last.ret)]
        /\ UNCHANGED <<mode, topK, hvars>>

\* Where purge_embeddings can fail: either DELETE, the commit, the VACUUM.
PurgeFaults == {"none", "delete_chunks", "delete_files", "commit", "vacuum"}

\* purge_embeddings().  A statement that raises leaves the method through the
\* except clause, which returns False and does not roll back.
PurgeEmbeddings(fault) ==
    LET c1 == IF fault = "delete_chunks" THEN vchunks ELSE DeleteAllChunks(vchunks)
        f1 == IF fault \in {"delete_chunks", "delete_files"} THEN vfiles
              ELSE DeleteAllFiles(vfiles)
        committed == fault \in {"none", "vacuum"}
    IN  /\ vchunks' = c1
        /\ vfiles' = f1
        /\ chunks' = IF committed THEN c1 ELSE chunks
        /\ files' = IF committed THEN f1 ELSE files
        /\ etx' = ~committed
        /\ idx' = [p \in Paths |-> NoContent]
        /\ purged' = (purged \/ fault = "none")
        \* count: the rows the connection saw in files and chunks when called
        /\ last' = [NoCall EXCEPT !.op = "purge", !.fault = fault,
                                  !.ret = (fault = "none"),
                                  !.count = CountFiles(vfiles) + Len(vchunks)]
        /\ UNCHANGED <<mode, topK, hvars>>

\* get_indexed_files_count(); a sqlite3.Error makes it return 0.
GetIndexedFilesCount(failed) ==
    /\ last' = [NoCall EXCEPT !.op = "count", !.ret = TRUE,
                              !.fault = (IF failed THEN "select" ELSE "none"),
                              !.count = (IF failed THEN 0 ELSE CountFiles(vfiles))]
    /\ UNCHANGED <<mode, topK, files, chunks, vfiles, vchunks, etx, idx, purged, hvars>>

\* find_relevant_chunks(question).  outcome is that of embedding the question;
\* "raise" also stands for a SELECT that raises: the method catches nothing.
FindRelevantChunks(question, outcome) ==
    /\ outcome \in EmbeddingOutcomes(mode)
    /\ IF outcome = "raise"
       THEN last' = [NoCall EXCEPT !.op = "find", !.question = question,
                                   !.fault = "raise", !.raised = TRUE]
       ELSE \E ending \in FindEndings(vchunks, GetEmbedding(question, outcome)) :
                IF ending = "raise"
                THEN last' = [NoCall EXCEPT !.op = "find", !.question = question,
                                            !.fault = "shape", !.reqs = 1]
                ELSE \E r \in FindResults(vchunks, GetEmbedding(question, outcome),
                                          topK) :
                         last' = [NoCall EXCEPT !.op = "find", !.question = question,
                                                !.lost = (outcome = "none"),
                                                !.ret = TRUE, !.reqs = 1, !.result = r]
    /\ UNCHANGED <<mode, topK, files, chunks, vfiles, vchunks, etx, idx, purged, hvars>>

(***************************************************************************)
(* ChatHistoryManager: table chat_history and the public methods.          *)
(***************************************************************************)
ContextNames == {"default", "x"}

Roles == {"user", "assistant"}

\* limit=None, as an empty sequence; limit=n as <<n>>
NoLimit == << >>

Limits == {NoLimit} \cup {<<n>> : n \in 1..MaxLimit}

NoHistoryCall ==
    [op |-> "none", context |-> "", limit |-> NoLimit, fault |-> "none",
     ret |-> FALSE, result |-> << >>, removed |-> 0, repeat |-> FALSE]

InitHistory ==
    /\ history = << >>
    /\ vhistory = << >>
    /\ htx = FALSE
    /\ clock = 0
    /\ hlast = NoHistoryCall

RowIds(rows) == {rows[i].id : i \in 1..Len(rows)}

\* the text of the n-th message typed: messages differ from one another
MessageText(n) == <<"m", n>>

\* INSERT INTO chat_history (context_name, role, content); timestamp defaults to
\* CURRENT_TIMESTAMP, id to the next rowid
InsertTurn(rows, c, role, content, now) ==
    Append(rows, [id |-> NextRowId(RowIds(rows)), context_name |-> c, role |-> role,
                  content |-> content, timestamp |-> now])

\* A variant of the DELETE of delete_context without its WHERE clause.
DeleteTurnsOfAnyContext(rows, c) == << >>

\* DELETE FROM chat_history WHERE context_name = ?
DeleteTurnsOf(rows, c) == SelectSeq(rows, LAMBDA r : r.context_name # c)

\* DELETE FROM chat_history;
DeleteAllTurns(rows) == << >>

\* WHERE context_name = ?
TurnsOf(rows, c) == SelectSeq(rows, LAMBDA r : r.context_name = c)

\* SELECT 1 FROM chat_history WHERE context_name = ? LIMIT 1; fetchone() is not None
HasTurns(rows, c) == \E i \in 1..Len(rows) : rows[i].context_name = c

\* ORDER BY timestamp DESC: the orders of the rows the query can produce.  SQL leaves
\* the order of rows of equal timestamp open, so each is an outcome.
OrderByTimestampDesc(rows) ==
    {[i \in 1..Len(rows) |-> rows[f[i]]] : f \in
        {g \in IndexOrders(Len(rows)) :
            \A i, j \in 1..Len(rows) :
                i < j => rows[g[i]].timestamp >= rows[g[j]].timestamp}}

\* LIMIT ?
ApplyLimit(rows, limit) ==
    IF limit = NoLimit THEN rows ELSE SubSeq(rows, 1, Min(limit[1], Len(rows)))

\* dict(zip(['role', 'content'], row))
AsMessage(r) == [role |-> r.role, content |-> r.content]

\* [dict(...) for row in reversed(messages)]
ReversedMessages(rows) == [i \in 1..Len(rows) |-> AsMessage(Reverse(rows)[i])]

\* get_context_history after the SELECT: the lists it can return
HistoryResults(rows, c, limit) ==
    {ReversedMessages(ApplyLimit(o, limit)) : o \in OrderByTimestampDesc(TurnsOf(rows, c))}

\* add_message_to_context(context_name, role, content).  A sqlite3.Error is printed;
\* nothing is rolled back and nothing is returned.
AddMessageToContext(c, role, fault) ==
    LET content == MessageText(NextRowId(RowIds(vhistory)))
        v1 == IF fault = "insert" THEN vhistory
              ELSE InsertTurn(vhistory, c, role, content, clock)
    IN  /\ NextRowId(RowIds(vhistory)) <= MaxTurns
        /\ vhistory' = v1
        /\ history' = IF fault = "none" THEN v1 ELSE history
        /\ htx' = (fault # "none")
        /\ hlast' = [NoHistoryCall EXCEPT !.op = "add", !.context = c, !.fault = fault,
                                          !.ret = (fault = "none")]
        /\ UNCHANGED <<clock, evars>>

\* get_context_history(context_name, limit); a sqlite3.Error makes it return [].
GetContextHistory(c, limit, failed) ==
    /\ \E r \in (IF failed THEN {<< >>} ELSE HistoryResults(vhistory, c, limit)) :
          hlast' = [NoHistoryCall EXCEPT !.op = "get", !.context = c, !.limit = limit,
                                        !.fault = (IF failed THEN "select" ELSE "none"),
                                        !.ret = TRUE, !.result = r]
    /\ UNCHANGED <<history, vhistory, htx, clock, evars>>

\* delete_context(context_name)
DeleteContext(c, fault) ==
    LET v1 == IF fault = "delete" THEN vhistory ELSE DeleteTurnsOf(vhistory, c)
    IN  /\ vhistory' = v1
        /\ history' = IF fault = "none" THEN v1 ELSE history
        /\ htx' = (fault # "none")
        \* removed: the rows the DELETE removed; repeat: the call before was this
        \* call and returned true
        /\ hlast' = [NoHistoryCall EXCEPT !.op = "delete", !.context = c,
                                          !.fault = fault, !.ret = (fault = "none"),
                                          !.removed = Len(vhistory) - Len(v1),
                                          !.repeat = (hlast.op = "delete" /\ hlast.context = c
                                                      /\ hlast.ret)]
        /\ UNCHANGED <<clock, evars>>

\* context_exists(context_name); a sqlite3.Error makes it return False.
ContextExists(c, failed) ==
    /\ hlast' = [NoHistoryCall EXCEPT !.op = "exists", !.context = c,
                                      !.fault = (IF failed THEN "select" ELSE "none"),
                                      !.ret = (~failed /\ HasTurns(vhistory, c))]
    /\ UNCHANGED <<history, vhistory, htx, clock, evars>>

\* purge_history()
PurgeHistory(fault) ==
    LET v1 == IF fault = "delete" THEN vhistory ELSE DeleteAllTurns(vhistory)
        committed == fault \in {"none", "vacuum"}
    IN  /\ vhistory' = v1
        /\ history' = IF committed THEN v1 ELSE history
        /\ htx' = ~committed
        /\ hlast' = [NoHistoryCall EXCEPT !.op = "purge", !.fault = fault,
                                          !.ret = (fault = "none")]
        /\ UNCHANGED <<clock, evars>>

\* a second passes
Tick ==
    /\ clock < MaxClock
    /\ clock' = clock + 1
    /\ UNCHANGED <<history, vhistory, htx, hlast, evars, cvars>>

(***************************************************************************)
(* main: the state of the console before the first input.                  *)
(***************************************************************************)
NoCommand ==
    [command |-> "none", arg |-> "", args |-> << >>, answer |-> "", active |-> "",
     question |-> << >>, asked |-> FALSE, rag |-> "", created |-> {},
     temperature |-> << >>]

\* the record of a new command; created, the names !context-new made active in
\* this session, is kept from command to command
NewCommand == [NoCommand EXCEPT !.created = clast.created]

\* llm_settings of a configuration file: the server alone, the server and a
\* temperature (in tenths), or neither
ServerOnly == [k \in {"server_url"} |-> "http://llm"]

Configs ==
    { [k \in {} |-> 0],
      ServerOnly,
      [k \in {"server_url", "temperature"} |->
          IF k = "server_url" THEN "http://llm" ELSE 3] }

InitConsoleWith(llm_settings) ==
    /\ current_context = "default"
    /\ is_context_enabled = TRUE
    /\ session_settings = [k \in {} |-> 0]
    /\ config = llm_settings
    /\ cpc = "prompt"
    /\ clast = NoCommand

InitConsole == InitConsoleWith(ServerOnly)

Init == InitEmbedding /\ InitHistory /\ InitConsole

DoIndexFile ==
    \E p \in Paths, force \in BOOLEAN, content \in Contents, fault \in IndexFaults,
       lost \in SUBSET {1} :
        IndexFile(p, force, content, fault, lost) /\ UNCHANGED cvars

DoPurgeEmbeddings ==
    \E fault \in PurgeFaults : PurgeEmbeddings(fault) /\ UNCHANGED cvars

DoGetIndexedFilesCount ==
    \E failed \in BOOLEAN : GetIndexedFilesCount(failed) /\ UNCHANGED cvars

DoFindRelevantChunks ==
    \E q \in Questions, outcome \in {"ok", "none", "raise"} :
        FindRelevantChunks(q, outcome) /\ UNCHANGED cvars

Next ==
    \/ DoIndexFile
    \/ DoPurgeEmbeddings
    \/ DoGetIndexedFilesCount

Spec == Init /\ [][Next]_vars

(***************************************************************************)
(* Properties of index_file.                                               *)
(***************************************************************************)
\* C1: after index_file(p, force=True) of content C1 and then index_file(p,
\* force=True) of a different content C2, both returning true with every chunk
\* embedded, the chunks stored for p are exactly the chunks of C2, and no chunk of
\* the earlier version remains in the store.
C1_ForcedReindexReplaces ==
    (/\ last.op = "index" /\ last.force /\ last.ret /\ last.repeat
     /\ ~last.unchanged /\ ~last.lost)
    => LET row == CHOOSE r \in files : r.path = last.path
           stored == SelectSeq(chunks, LAMBDA c : c.file_id = row.id)
       IN  /\ \E r \in files : r.path = last.path
           /\ [i \in 1..Len(stored) |-> stored[i].chunk_text] = ChunksOf(idx[last.path])
           /\ \A i \in 1..Len(chunks) : \E r \in files : r.id = chunks[i].file_id

\* C2: in every committed state, each row of chunks refers to an existing row of
\* files, and it is a chunk of the content that row records: no chunk outlives the
\* file row it was created for.
C2_CascadeInvariant ==
    \A i \in 1..Len(chunks) :
        \E r \in files :
            /\ r.id = chunks[i].file_id
            /\ \E c \in Contents :
                   /\ GetFileHash(c) = r.content_hash
                   /\ \E j \in 1..Len(ChunksOf(c)) : ChunksOf(c)[j] = chunks[i].chunk_text

\* C3: index_file(p, force=False) of the content p was last indexed with returns
\* false, sends no embedding request, and leaves files and chunks as they were.
C3_IdempotentSkip ==
    [][(last'.op = "index" /\ ~last'.force /\ last'.unchanged)
       => /\ last'.ret = FALSE
          /\ last'.reqs = 0
          /\ UNCHANGED <<files, chunks, vfiles, vchunks>>]_vars

\* C3, its case: index_file(p, force=False) returned true, and the same call again
\* on the unchanged file returned false.
C3_SkippedSecondCall ==
    /\ last.op = "index" /\ ~last.force /\ last.unchanged /\ last.repeat
    /\ last.fault = "none" /\ ~last.ret
    /\ \E r \in files : r.path = last.path
    /\ chunks # << >>

C9_PurgePostcondition ==
    purged =>
        /\ CountFiles(vfiles) = 0
        /\ (last.op = "count" => last.count = 0)
        /\ \A q \in Questions, outcome \in {"ok", "none"}, k \in 0..MaxTopK \cup {topK} :
               FindResults(vchunks, GetEmbedding(q, outcome), k) = {<< >>}

\* C9, its case: purge_embeddings was called on a store that held rows and
\* returned true.
C9_PurgedNonEmptyStore ==
    purged /\ last.op = "purge" /\ last.ret /\ last.count > 0

\* C10: a purge_embeddings that returns false leaves files and chunks as they
\* were, both the committed tables and what the connection sees: nothing of a purge
\* that failed halfway is kept.
C10_PurgeAllOrNothing ==
    [][(last'.op = "purge" /\ ~last'.ret)
       => UNCHANGED <<files, chunks, vfiles, vchunks>>]_vars

(***************************************************************************)
(* Retrieval.  find_relevant_chunks reads the store and writes nothing, so *)
(* it is checked from the stores one index_file call builds on an empty    *)
(* database: every sequence of at most MaxStored one-letter paragraphs.    *)
(***************************************************************************)
RECURSIVE Paragraphs(_)
Paragraphs(n) ==
    IF n = 0 THEN {<< >>}
    ELSE Paragraphs(n - 1) \cup
         {Append(s, l) : s \in {t \in Paragraphs(n - 1) : Len(t) = n - 1}, l \in Letters}

\* the paragraphs joined by blank lines: the content of the file
RECURSIVE JoinParagraphs(_)
JoinParagraphs(ps) ==
    IF ps = << >> THEN << >>
    ELSE IF Len(ps) = 1 THEN <<ps[1]>>
    ELSE <<ps[1], NL, NL>> \o JoinParagraphs(Tail(ps))

InitRetrieval ==
    /\ mode \in Modes
    /\ topK \in 0..MaxTopK
    /\ \E ps \in Paragraphs(MaxStored) :
          LET content == JoinParagraphs(ps)
              h == GetFileHash(content)
              texts == ChunksOf(content)
              embs == [i \in 1..Len(texts) |-> GetEmbedding(texts[i], "ok")]
          IN  /\ files = InsertFile({}, "p1", h)
              /\ chunks = InsertChunks(<< >>, InsertedFileId({}), texts, embs)
              /\ idx = [p \in Paths |-> IF p = "p1" THEN content ELSE NoContent]
    /\ vfiles = files
    /\ vchunks = chunks
    /\ etx = FALSE
    /\ purged = FALSE
    /\ last = NoCall
    /\ InitHistory
    /\ InitConsole

NextRetrieval == DoFindRelevantChunks

\* The failures drawn for the conversation store: a statement that raises, the
\* commit of a new turn, the VACUUM.
AddFaults == {"none", "insert", "commit"}

DeleteFaults == {"none", "delete"}

PurgeHistoryFaults == {"none", "delete", "vacuum"}

DoAddMessageToContext ==
    \E c \in ContextNames, role \in Roles, fault \in AddFaults :
        AddMessageToContext(c, role, fault) /\ UNCHANGED cvars

DoGetContextHistory ==
    \E c \in ContextNames, limit \in Limits, failed \in BOOLEAN :
        GetContextHistory(c, limit, failed) /\ UNCHANGED cvars

DoDeleteContext ==
    \E c \in ContextNames, fault \in DeleteFaults :
        DeleteContext(c, fault) /\ UNCHANGED cvars

DoPurgeHistory ==
    \E fault \in PurgeHistoryFaults :
        PurgeHistory(fault) /\ UNCHANGED cvars

DoContextExists ==
    \E c \in ContextNames, failed \in BOOLEAN :
        ContextExists(c, failed) /\ UNCHANGED cvars

NextHistory ==
    \/ DoAddMessageToContext
    \/ DoGetContextHistory
    \/ DoDeleteContext
    \/ DoPurgeHistory
    \/ Tick

\* The conversation store never reads the embedding settings.
InitConversation == Init /\ mode = "api"

SpecHistory == InitConversation /\ [][NextHistory]_vars

\* The calls that decide which contexts have turns.
NextContexts ==
    \/ DoAddMessageToContext
    \/ DoDeleteContext
    \/ DoPurgeHistory
    \/ DoContextExists

SpecContexts == InitConversation /\ [][NextContexts]_vars

SpecRetrieval == InitRetrieval /\ [][NextRetrieval]_vars

\* The length of the vectors an embedding provider gives is a property of the
\* model the configuration names; Encode above stands for a model of length 2.
Dimensions == {2, 3}

\* the embedding of a text by a model whose vectors have length dim
EncodeAs(text, dim) == Encode(text) \o [i \in 1..(dim - 2) |-> 0]

\* The database outlives the run: the store index_file left in earlier runs, file
\* p1 indexed with a provider of length d1 and file p2 with one of length d2,
\* read in this run by find_relevant_chunks with the provider of length 2.
InitProviders ==
    /\ mode \in Modes
    /\ topK \in 1..MaxTopK
    /\ \E ps1 \in Paragraphs(MaxStored), ps2 \in Paragraphs(MaxStored),
          d1 \in Dimensions, d2 \in Dimensions :
          LET content1 == JoinParagraphs(ps1)
              content2 == JoinParagraphs(ps2)
              texts1 == ChunksOf(content1)
              texts2 == ChunksOf(content2)
              f1 == InsertFile({}, "p1", GetFileHash(content1))
              c1 == InsertChunks(<< >>, InsertedFileId({}), texts1,
                                 [i \in 1..Len(texts1) |-> EncodeAs(texts1[i], d1)])
          IN  /\ Len(ps1) + Len(ps2) <= MaxStored
              /\ files = InsertFile(f1, "p2", GetFileHash(content2))
              /\ chunks = InsertChunks(c1, InsertedFileId(f1), texts2,
                                       [i \in 1..Len(texts2) |-> EncodeAs(texts2[i], d2)])
              /\ idx = [p \in Paths |-> IF p = "p1" THEN content1 ELSE content2]
    /\ vfiles = files
    /\ vchunks = chunks
    /\ etx = FALSE
    /\ purged = FALSE
    /\ last = NoCall
    /\ InitHistory
    /\ InitConsole

SpecProviders == InitProviders /\ [][NextRetrieval]_vars

(***************************************************************************)
(* Properties of find_relevant_chunks.                                     *)
(***************************************************************************)
\* C6: find_relevant_chunks, having embedded the question to a vector that is not
\* zero, returns min(top_k, V) of the V valid stored chunks, each once, in
\* descending order of cosine similarity to the question, and no chunk left out is
\* more similar than a chunk returned.
C6_RetrievalRanking ==
    (last.op = "find" /\ last.ret /\ ~last.lost /\ Norm2(Encode(last.question)) > 0) =>
        LET q == Encode(last.question)
            r == last.result
            e(i) == vchunks[i].embedding
            returned == {r[i] : i \in 1..Len(r)}
            valid == {i \in 1..Len(vchunks) : Norm2(e(i)) > 0}
        IN  /\ Len(r) = Min(topK, Cardinality(valid))
            /\ returned \subseteq valid
            /\ \A i, j \in 1..Len(r) : i < j =>
                   r[i] # r[j] /\ ~SimLT(e(r[i]), e(r[j]), q)
            /\ \A v \in valid \ returned :
                   \A i \in 1..Len(r) : ~SimLT(e(r[i]), e(v), q)

\* C7: with top_k_chunks at least 1, chunks of equal similarity to the question are
\* returned in the order they are stored, and where the cut falls among equals the
\* earlier stored are kept.
C7_StableTieBreak ==
    (/\ last.op = "find" /\ last.ret /\ ~last.lost /\ Norm2(Encode(last.question)) > 0
     /\ topK >= 1) =>
        LET q == Encode(last.question)
            r == last.result
            e(i) == vchunks[i].embedding
            returned == {r[i] : i \in 1..Len(r)}
            valid == {i \in 1..Len(vchunks) : Norm2(e(i)) > 0}
        IN  /\ \A i, j \in 1..Len(r) :
                   i < j /\ SimEQ(e(r[i]), e(r[j]), q) => r[i] < r[j]
            /\ \A v \in valid \ returned :
                   \A i \in 1..Len(r) : SimEQ(e(r[i]), e(v), q) => r[i] < v

\* C8: find_relevant_chunks never returns a chunk whose stored vector has norm
\* zero, and a question whose vector has norm zero gets the empty list.
C8_ZeroVectorHandling ==
    (last.op = "find" /\ last.ret) =>
        /\ \A i \in 1..Len(last.result) :
               Norm2(vchunks[last.result[i]].embedding) > 0
        /\ (~last.lost /\ Norm2(Encode(last.question)) = 0) => last.result = << >>

\* C8, its case: the store holds a chunk of norm zero next to chunks that can be
\* scored, fewer of them than top_k asks for, and a question was answered.
C8_ZeroChunkPassedOver ==
    /\ last.op = "find" /\ last.ret /\ last.result # << >>
    /\ \E i \in 1..Len(vchunks) : Norm2(vchunks[i].embedding) = 0
    /\ Len(last.result) < topK

(***************************************************************************)
(* Properties of get_context_history.                                      *)
(***************************************************************************)
\* C5: get_context_history(c, limit) returns the turns of c in the order
\* add_message_to_context stored them, oldest first, and with a limit the latest
\* limit of them, whether or not turns share a timestamp.
C5_HistoryOrderRoundTrip ==
    (hlast.op = "get" /\ hlast.fault = "none") =>
        LET t == SelectSeq(vhistory, LAMBDA r : r.context_name = hlast.context)
            n == Len(t)
            k == IF hlast.limit = NoLimit THEN n ELSE Min(hlast.limit[1], n)
        IN  hlast.result =
                [i \in 1..k |-> [role |-> t[n - k + i].role, content |-> t[n - k + i].content]]

(***************************************************************************)
(* main and command_handler: the console.  One action per command; a       *)
(* handler that calls a second manager method, or asks for confirmation    *)
(* after a manager call, continues in a further step (cpc says where).     *)
(* Modelled: a question, !purge, !context-on, !context-off, !context-new,  *)
(* !context-switch, !context-clear, !context-delete, !settings.            *)
(***************************************************************************)
\* what the user types at a confirmation prompt
Answers == {"Y", " yes ", "n", ""}

\* input(...).strip().lower()
StripLower(answer) ==
    CASE answer = "Y" -> "y"
      [] answer = " yes " -> "yes"
      [] OTHER -> answer

\* A variant of the confirmation test that takes everything but a "no" for a yes.
IsNotDeclined(confirm) == confirm \notin {"n", "no"}

\* confirm in ['y', 'yes']
IsConfirmed(confirm) == confirm \in {"y", "yes"}

\* args[0] if args else None; the empty name stands for None
ContextArgs == ContextNames \cup {""}

\* A variant of the guard of handle_context_delete that lets the active context pass.
IsNeverActiveContext(c, active) == FALSE

\* context_to_delete == active_context
IsActiveContext(c, active) == c = active

\* the arguments typed after !settings
SettingArgs ==
    { << >>,
      <<"temperature">>,
      <<"temperature", "0.5">>,
      <<"Temperature", "1">>,
      <<"temperature", "1.0">>,
      <<"temperature", "hot">>,
      <<"temperature", "0.5", "1">>,
      <<"top_p", "0.5">> }

\* args[0].lower()
Lower(token) == IF token = "Temperature" THEN "temperature" ELSE token

\* " ".join(args[1:])
RECURSIVE JoinSpace(_)
JoinSpace(tokens) ==
    IF Len(tokens) <= 1 THEN tokens
    ELSE <<Head(tokens), " ">> \o JoinSpace(Tail(tokens))

\* allowed_params = {'temperature': float}
AllowedParams == {"temperature"}

\* A variant of the allow-list test that lets every parameter name pass.
IsAnyParam(param) == TRUE

\* param in allowed_params
IsAllowedParam(param) == param \in AllowedParams

\* float(value): the number in tenths, or a ValueError
ToFloat(value) ==
    IF Len(value) # 1 THEN [ok |-> FALSE, value |-> 0]
    ELSE CASE value[1] = "0.5" -> [ok |-> TRUE, value |-> 5]
           [] value[1] = "1" -> [ok |-> TRUE, value |-> 10]
           [] value[1] = "1.0" -> [ok |-> TRUE, value |-> 10]
           [] OTHER -> [ok |-> FALSE, value |-> 0]

\* session_settings[param] = converted_value
Put(m, k, v) == [x \in DOMAIN m \cup {k} |-> IF x = k THEN v ELSE m[x]]

\* context_settings.get("max_history_length", 10)
DefaultMaxHistoryLength == 10

\* The console is followed with a storage that does not fail (the failures of the
\* manager methods are drawn where the managers are called directly); the embedding
\* provider can fail.
ConsoleFaults == {"none"}

ConsoleQuestions == {<<"a">>}

\* a command that ends at once and touches neither manager
Rejected(command, arg) ==
    /\ clast' = [NewCommand EXCEPT !.command = command, !.arg = arg,
                                  !.active = current_context]
    /\ UNCHANGED <<evars, hvars, current_context, is_context_enabled,
                   session_settings, config, cpc>>

\* a question, up to the return of find_relevant_chunks.  An exception that leaves
\* find_relevant_chunks is caught by the except clause of the loop of main, which
\* prints it and prompts again.
HandleQuestion(question, outcome) ==
    /\ cpc = "prompt"
    /\ is_context_enabled => NextRowId(RowIds(vhistory)) + 1 <= MaxTurns
    /\ FindRelevantChunks(question, outcome)
    /\ cpc' = IF last'.fault # "none" THEN "prompt"
              ELSE IF is_context_enabled THEN "get_history" ELSE "ask"
    /\ clast' = [NewCommand EXCEPT
                     !.command = "question", !.question = question,
                     !.active = current_context,
                     !.rag = (IF last'.fault # "none" THEN ""
                              ELSE IF last'.result = << >> THEN "No relevant code snippets"
                              ELSE "chunks")]
    /\ UNCHANGED <<current_context, is_context_enabled, session_settings, config>>

\* history = history_manager.get_context_history(current_context, limit=max_len)
QuestionGetHistory ==
    /\ cpc = "get_history"
    /\ GetContextHistory(current_context, <<DefaultMaxHistoryLength>>, FALSE)
    /\ cpc' = "ask"
    /\ UNCHANGED <<current_context, is_context_enabled, session_settings, config, clast>>

\* A variant of dict.get that never finds the key.
GetDefault(m, k, default) == default

\* m.get(k, default)
Get(m, k, default) == IF k \in DOMAIN m THEN m[k] ELSE default

\* llm_config.get("temperature", 0.7), in tenths
DefaultTemperature == 7

\* session_settings.get("temperature", llm_config.get("temperature", 0.7)); float()
\* of a number is that number
RequestTemperature(settings, llm_config) ==
    Get(settings, "temperature", Get(llm_config, "temperature", DefaultTemperature))

\* ask_local_llm(...): its failures come back as the text of the answer.  Without a
\* server_url in llm_settings no request is made.  temperature is the value placed
\* in the request, as <<value>>.
QuestionAsk ==
    /\ cpc = "ask"
    /\ clast' = IF "server_url" \in DOMAIN config
                THEN [clast EXCEPT
                          !.asked = TRUE,
                          !.temperature = <<RequestTemperature(session_settings, config)>>]
                ELSE clast
    /\ cpc' = IF is_context_enabled THEN "add_user" ELSE "prompt"
    /\ UNCHANGED <<evars, hvars, current_context, is_context_enabled, session_settings, config>>

\* history_manager.add_message_to_context(current_context, 'user', question)
QuestionAddUser ==
    /\ cpc = "add_user"
    /\ \E fault \in ConsoleFaults : AddMessageToContext(current_context, "user", fault)
    /\ cpc' = "add_assistant"
    /\ UNCHANGED <<current_context, is_context_enabled, session_settings, config, clast>>

\* history_manager.add_message_to_context(current_context, 'assistant', final_answer)
QuestionAddAssistant ==
    /\ cpc = "add_assistant"
    /\ \E fault \in ConsoleFaults :
           AddMessageToContext(current_context, "assistant", fault)
    /\ cpc' = "prompt"
    /\ UNCHANGED <<current_context, is_context_enabled, session_settings, config, clast>>

\* handle_purge, up to the return of purge_embeddings
HandlePurge(answer, fault) ==
    LET confirm == StripLower(answer)
    IN  /\ cpc = "prompt"
        /\ clast' = [NewCommand EXCEPT !.command = "purge", !.answer = confirm,
                                      !.active = current_context]
        /\ IF IsConfirmed(confirm)
           THEN PurgeEmbeddings(fault) /\ cpc' = "purge_history"
           ELSE UNCHANGED <<evars, hvars, cpc>>
        /\ UNCHANGED <<current_context, is_context_enabled, session_settings, config>>

\* handle_purge: h_success = history_manager.purge_history()
HandlePurgeHistory(fault) ==
    /\ cpc = "purge_history"
    /\ PurgeHistory(fault)
    /\ cpc' = "prompt"
    /\ UNCHANGED <<current_context, is_context_enabled, session_settings, config, clast>>

\* handle_context_on, handle_context_off
HandleContextOnOff(on) ==
    /\ cpc = "prompt"
    /\ is_context_enabled' = on
    /\ clast' = [NewCommand EXCEPT !.command = (IF on THEN "context-on" ELSE "context-off"),
                                  !.active = current_context]
    /\ UNCHANGED <<evars, hvars, current_context, session_settings, config, cpc>>

\* handle_context_new and the assignment of its result in main
HandleContextNew(arg, failed) ==
    /\ cpc = "prompt"
    /\ IF arg = ""
       THEN Rejected("context-new", arg)
       ELSE /\ ContextExists(arg, failed)
            /\ current_context' = IF hlast'.ret THEN current_context ELSE arg
            /\ clast' = [NewCommand EXCEPT
                             !.command = "context-new", !.arg = arg,
                             !.active = current_context,
                             !.created = IF hlast'.ret THEN clast.created
                                         ELSE clast.created \cup {arg}]
            /\ UNCHANGED <<is_context_enabled, session_settings, config, cpc>>

\* A variant of the test for 'default' that takes every name for it.
IsAlwaysDefaultContext(new_context) == TRUE

\* new_context == 'default', the name handle_context_switch accepts without asking
\* context_exists
IsDefaultContext(new_context) == new_context = "default"

\* handle_context_switch and the assignment of its result in main
HandleContextSwitch(arg, failed) ==
    /\ cpc = "prompt"
    /\ IF arg = ""
       THEN Rejected("context-switch", arg)
       ELSE /\ IF IsDefaultContext(arg)
               THEN current_context' = arg /\ UNCHANGED <<evars, hvars>>
               ELSE /\ ContextExists(arg, failed)
                    /\ current_context' = IF hlast'.ret THEN arg ELSE current_context
            /\ clast' = [NewCommand EXCEPT !.command = "context-switch", !.arg = arg,
                                          !.active = current_context]
            /\ UNCHANGED <<is_context_enabled, session_settings, config, cpc>>

\* handle_context_clear
HandleContextClear(answer, fault) ==
    LET confirm == StripLower(answer)
    IN  /\ cpc = "prompt"
        /\ clast' = [NewCommand EXCEPT !.command = "context-clear", !.answer = confirm,
                                      !.arg = current_context,
                                      !.active = current_context]
        /\ IF IsConfirmed(confirm)
           THEN DeleteContext(current_context, fault)
           ELSE UNCHANGED <<evars, hvars>>
        /\ UNCHANGED <<current_context, is_context_enabled, session_settings, config, cpc>>

\* handle_context_delete, up to the confirmation prompt
HandleContextDelete(arg, failed) ==
    /\ cpc = "prompt"
    /\ IF arg = "" \/ IsActiveContext(arg, current_context)
       THEN Rejected("context-delete", arg)
       ELSE /\ ContextExists(arg, failed)
            /\ cpc' = IF hlast'.ret THEN "confirm_delete" ELSE "prompt"
            /\ clast' = [NewCommand EXCEPT !.command = "context-delete", !.arg = arg,
                                          !.active = current_context]
            /\ UNCHANGED <<current_context, is_context_enabled, session_settings, config>>

\* handle_context_delete, from the confirmation prompt on
HandleContextDeleteConfirm(answer, fault) ==
    LET confirm == StripLower(answer)
    IN  /\ cpc = "confirm_delete"
        /\ clast' = [clast EXCEPT !.answer = confirm]
        /\ IF IsConfirmed(confirm)
           THEN DeleteContext(clast.arg, fault)
           ELSE UNCHANGED <<evars, hvars>>
        /\ cpc' = "prompt"
        /\ UNCHANGED <<current_context, is_context_enabled, session_settings, config>>

\* handle_setting_set
HandleSettingSet(args) ==
    LET param == Lower(args[1])
        value == JoinSpace(Tail(args))
        converted == ToFloat(value)
        accepted == Len(args) >= 2 /\ IsAllowedParam(param) /\ converted.ok
    IN  /\ cpc = "prompt"
        /\ session_settings' = IF accepted
                               THEN Put(session_settings, param, converted.value)
                               ELSE session_settings
        /\ clast' = [NewCommand EXCEPT !.command = "settings", !.args = args,
                                      !.active = current_context]
        /\ UNCHANGED <<evars, hvars, current_context, is_context_enabled, config, cpc>>

\* the steps of a question
Question ==
    \/ \E q \in ConsoleQuestions, outcome \in {"ok", "none", "raise"} :
           HandleQuestion(q, outcome)
    \/ QuestionGetHistory
    \/ QuestionAsk
    \/ QuestionAddUser
    \/ QuestionAddAssistant

NextConsole ==
    \/ Question
    \/ \E answer \in Answers, fault \in ConsoleFaults : HandlePurge(answer, fault)
    \/ \E fault \in ConsoleFaults : HandlePurgeHistory(fault)
    \/ \E on \in BOOLEAN : HandleContextOnOff(on)
    \/ \E arg \in ContextArgs, failed \in BOOLEAN : HandleContextNew(arg, failed)
    \/ \E arg \in ContextArgs, failed \in BOOLEAN : HandleContextSwitch(arg, failed)
    \/ \E answer \in Answers, fault \in ConsoleFaults : HandleContextClear(answer, fault)
    \/ \E arg \in ContextArgs, failed \in BOOLEAN : HandleContextDelete(arg, failed)
    \/ \E answer \in Answers, fault \in ConsoleFaults :
           HandleContextDeleteConfirm(answer, fault)

\* The session settings, and the questions they are used for.
NextSettings ==
    \/ \E args \in SettingArgs : HandleSettingSet(args)
    \/ Question

\* The console starts on the database an earlier session left: one file of two
\* paragraphs is indexed.
InitIndexed ==
    /\ mode \in Modes
    /\ topK = DefaultTopK
    /\ LET content == <<"a", NL, NL, "b">>
           texts == ChunksOf(content)
           embs == [i \in 1..Len(texts) |-> GetEmbedding(texts[i], "ok")]
       IN  /\ files = InsertFile({}, "p1", GetFileHash(content))
           /\ chunks = InsertChunks(<< >>, InsertedFileId({}), texts, embs)
           /\ idx = [p \in Paths |-> IF p = "p1" THEN content ELSE NoContent]
    /\ vfiles = files
    /\ vchunks = chunks
    /\ etx = FALSE
    /\ purged = FALSE
    /\ last = NoCall
    /\ InitHistory

InitSession == InitIndexed /\ InitConsole

\* the same start, with each of the configuration files
InitSettings == InitIndexed /\ \E llm_settings \in Configs : InitConsoleWith(llm_settings)

SpecConsole == InitSession /\ [][NextConsole]_vars

SpecSettings == InitSettings /\ [][NextSettings]_vars

\* The console starts on the database an earlier session left, in which a question
\* was asked and answered in context x.
InitResumed ==
    /\ mode \in Modes
    /\ topK = DefaultTopK
    /\ LET content == <<"a", NL, NL, "b">>
           texts == ChunksOf(content)
           embs == [i \in 1..Len(texts) |-> GetEmbedding(texts[i], "ok")]
       IN  /\ files = InsertFile({}, "p1", GetFileHash(content))
           /\ chunks = InsertChunks(<< >>, InsertedFileId({}), texts, embs)
           /\ idx = [p \in Paths |-> IF p = "p1" THEN content ELSE NoContent]
    /\ vfiles = files
    /\ vchunks = chunks
    /\ etx = FALSE
    /\ purged = FALSE
    /\ last = NoCall
    /\ history = InsertTurn(InsertTurn(<< >>, "x", "user", MessageText(1), 0),
                            "x", "assistant", MessageText(2), 0)
    /\ vhistory = history
    /\ htx = FALSE
    /\ clock = 0
    /\ hlast = NoHistoryCall
    /\ InitConsole

SpecResumed == InitResumed /\ [][NextConsole]_vars

(***************************************************************************)
(* Properties of delete_context and context_exists.                        *)
(***************************************************************************)
\* C11: a delete_context(name) that meets no storage error returns true, also when
\* name has no turns; afterwards no turn of name is left, the turns of every other
\* context and the tables files and chunks are as before; called again right after
\* a call that returned true, it changes nothing and returns true again.
C11_DeleteContextScopedIdempotent ==
    [][(hlast'.op = "delete" /\ hlast'.fault = "none" /\ hlast' # hlast)
       => /\ hlast'.ret = TRUE
          /\ TurnsOf(vhistory', hlast'.context) = << >>
          /\ TurnsOf(history', hlast'.context) = << >>
          /\ \A d \in ContextNames \ {hlast'.context} :
                 TurnsOf(vhistory', d) = TurnsOf(vhistory, d)
          /\ UNCHANGED <<files, chunks, vfiles, vchunks>>
          /\ hlast'.repeat => (vhistory' = vhistory /\ history' = history)]_vars

\* C11, its case: delete_context(name) removed the turns of name while another
\* context kept its turns, and called again it returned true and removed nothing.
C11_DeletedTwice ==
    /\ hlast.op = "delete" /\ hlast.fault = "none" /\ hlast.ret
    /\ hlast.repeat /\ hlast.removed = 0
    /\ \E i \in 1..Len(vhistory) : vhistory[i].context_name # hlast.context

\* C12: context_exists("default") is true in every state, also when no turn
\* refers to "default".
C12_DefaultContextExists ==
    (hlast.op = "exists" /\ hlast.context = "default" /\ hlast.fault = "none")
    => hlast.ret = TRUE

(***************************************************************************)
(* Properties of the console.                                              *)
(***************************************************************************)
\* C13: a !context-delete n typed while n is the active context calls no method of
\* the history manager and removes no turn; whenever the confirmation of a
\* !context-delete is pending its target is not the active context, and the step
\* that follows leaves the turns of the active context as they are.
C13_ActiveContextDeleteGuard ==
    [][/\ (/\ cpc = "prompt" /\ clast' # clast
           /\ clast'.command = "context-delete" /\ clast'.arg = current_context)
          => /\ cpc' = "prompt"
             /\ UNCHANGED <<history, vhistory, htx, hlast>>
       /\ cpc' = "confirm_delete"
          => (clast'.command = "context-delete" /\ clast'.arg # current_context')
       /\ cpc = "confirm_delete"
          => /\ clast.arg # current_context
             /\ TurnsOf(vhistory', current_context) = TurnsOf(vhistory, current_context)
             /\ TurnsOf(history', current_context) = TurnsOf(history, current_context)]_vars

\* C13, its case: !context-delete n was typed while n, a context with turns, was
\* active, and was turned down.
C13_DeleteOfActiveRejected ==
    /\ clast.command = "context-delete" /\ clast.arg = current_context
    /\ clast.arg # "default"
    /\ cpc = "prompt"
    /\ HasTurns(vhistory, current_context)

\* C14: !settings changes the session settings only when it has two arguments or
\* more, the lower-cased parameter is 'temperature' and the joined value converts
\* to a float, and then it sets that parameter to that float; in every other case
\* the settings are unchanged.  No other command changes them, and they hold only
\* allow-listed parameters with numbers as values.
C14_SettingValidation ==
    [][/\ (clast' # clast /\ clast'.command = "settings")
          => LET args == clast'.args
                 valid == /\ Len(args) >= 2
                          /\ Lower(args[1]) = "temperature"
                          /\ ToFloat(JoinSpace(Tail(args))).ok
             IN  IF valid
                 THEN session_settings' =
                          Put(session_settings, "temperature",
                              ToFloat(JoinSpace(Tail(args))).value)
                 ELSE session_settings' = session_settings
       /\ session_settings' # session_settings => clast'.command = "settings"
       /\ \A k \in DOMAIN session_settings' :
              k = "temperature" /\ session_settings'[k] \in Int]_vars

\* C14, its case: a temperature is set, and a !settings command with an unknown
\* parameter or a value that is no float has just been turned down.
C14_RejectedAfterAccepted ==
    /\ clast.command = "settings"
    /\ Len(clast.args) >= 2
    /\ (Lower(clast.args[1]) # "temperature" \/ ~ToFloat(JoinSpace(Tail(clast.args))).ok)
    /\ DOMAIN session_settings = {"temperature"}

\* C16: a question whose find_relevant_chunks failed (the provider raised, or the
\* request failed) is still sent to the chat-completion service, with the text
\* that says no relevant context was found.
C16_RetrievalFailureDegrades ==
    (/\ clast.command = "question" /\ cpc = "prompt"
     /\ last.op = "find" /\ (last.fault # "none" \/ last.lost))
    => (clast.asked /\ clast.rag = "No relevant code snippets")

\* C17: !purge, !context-clear and !context-delete call purge_embeddings,
\* purge_history and delete_context only after the answer 'y' or 'yes' (stripped,
\* lower-cased) to the confirmation prompt; with any other answer no manager
\* method is called and files, chunks and chat_history are unchanged.
C17_ConfirmationGates ==
    [][/\ (/\ clast' # clast
           /\ clast'.command \in {"purge", "context-clear", "context-delete"}
           /\ (cpc = "confirm_delete" \/ clast'.command # "context-delete")
           /\ clast'.answer \notin {"y", "yes"})
          => /\ cpc' = "prompt"
             /\ UNCHANGED <<files, chunks, vfiles, vchunks, etx, last,
                            history, vhistory, htx, hlast>>
       /\ cpc = "purge_history"
          => (clast.command = "purge" /\ clast.answer \in {"y", "yes"})
       /\ ((last' # last /\ last'.op = "purge")
           \/ (hlast' # hlast /\ hlast'.op \in {"purge", "delete"}))
          => /\ clast'.command \in {"purge", "context-clear", "context-delete"}
             /\ clast'.answer \in {"y", "yes"}]_vars

\* C17, its case: a !purge was answered with something other than yes while
\* files were indexed and turns were stored.
C17_PurgeDeclined ==
    /\ clast.command = "purge" /\ clast.answer \notin {"y", "yes"}
    /\ cpc = "prompt"
    /\ files # {} /\ chunks # << >> /\ history # << >>

\* C15: in api mode no embedding request, made by index_file or by
\* find_relevant_chunks, ends with an exception that leaves get_embedding.
C15_ApiFailuresBecomeNone ==
    (mode = "api" /\ last.op \in {"index", "find"}) => ~last.raised

\* C18: after an index_file that returned true on a content with no non-blank
\* chunk, the committed table files holds exactly one row for the path, with the
\* digest of that content, and the committed table chunks holds no row of that
\* file.
C18_ZeroChunkFileIndexed ==
    (/\ last.op = "index" /\ last.ret
     /\ ChunksOf(idx[last.path]) = << >>)
    => LET rows == {r \in files : r.path = last.path}
       IN  /\ Cardinality(rows) = 1
           /\ \A r \in rows :
                  /\ r.content_hash = GetFileHash(idx[last.path])
                  /\ \A i \in 1..Len(chunks) : chunks[i].file_id # r.id

\* C19: index_file makes no embedding call while its connection has a write
\* transaction open.
C19_NoTransactionAcrossEmbedding ==
    last.op = "index" => ~last.held

\* C20: a find_relevant_chunks whose question was embedded, on a store that holds
\* vectors of a length other than the question's or of different lengths, does
\* not raise: it returns a list of texts.
C20_MismatchSkipped ==
    (/\ last.op = "find" /\ ~last.raised /\ ~last.lost
     /\ \E i \in 1..Len(vchunks) :
            Len(vchunks[i].embedding) # Len(Encode(last.question)))
    => (last.fault = "none" /\ last.ret)

(***************************************************************************)
(* Properties across operations.                                           *)
(***************************************************************************)
\* C24: a find_relevant_chunks whose question has a non-zero embedding returns
\* exactly min(top_k, V) positions, none of them twice, where V is the number of
\* stored chunks with a non-zero embedding; with top_k = 0 it returns nothing.
C24_ResultSizeBounded ==
    (/\ last.op = "find" /\ last.ret /\ ~last.lost
     /\ Norm2(Encode(last.question)) > 0)
    => /\ Len(last.result) = Min(topK, Len(ValidIndices(vchunks)))
       /\ \A i, j \in 1..Len(last.result) :
              last.result[i] = last.result[j] => i = j

\* C22: in every committed state, a row of files for path p with digest h comes
\* with exactly the non-blank chunks of the content of digest h in table chunks,
\* in order: a file that index_file would skip as unchanged misses no chunk.
C22_HashImpliesCompleteIndex ==
    \A r \in files :
        GetFileHash(idx[r.path]) = r.content_hash
        => LET stored == SelectSeq(chunks, LAMBDA c : c.file_id = r.id)
           IN  [i \in 1..Len(stored) |-> stored[i].chunk_text] = ChunksOf(idx[r.path])

\* C23: between two operations neither connection has a transaction open: every
\* operation of the two managers returns with its changes committed or rolled
\* back.
C23_NoTransactionLeftOpen ==
    ~etx /\ ~htx

\* C25 as stated: the active context is 'default', or has at least one turn, or
\* was made active by !context-new in this session.
C25_ActiveContextExists ==
    \/ current_context = "default"
    \/ HasTurns(vhistory, current_context)
    \/ current_context \in clast.created

\* C25, amended: the active context changes only by a !context-new of a name for
\* which context_exists returned false, or by a !context-switch to 'default' or to
\* a name with at least one turn; a !context-switch or !context-new that fails
\* leaves it unchanged; no other command changes it, so after a confirmed
\* !context-clear or !purge the active name stays active without a turn.
C25_ActiveContextChanges ==
    [][/\ current_context' # current_context
          => /\ cpc = "prompt"
             /\ clast'.command \in {"context-new", "context-switch"}
             /\ current_context' = clast'.arg
             /\ clast'.command = "context-new" => ~hlast'.ret
             /\ clast'.command = "context-switch"
                => (clast'.arg = "default" \/ HasTurns(vhistory, clast'.arg))
       /\ (/\ cpc = "prompt" /\ clast'.command = "context-switch"
           /\ clast'.arg # "default" /\ ~HasTurns(vhistory, clast'.arg))
          => current_context' = current_context
       /\ (/\ cpc = "prompt" /\ clast'.command = "context-new"
           /\ (clast'.arg = "" \/ hlast'.ret))
          => current_context' = current_context
       /\ clast'.command \in {"context-clear", "purge"}
          => current_context' = current_context]_vars

\* C25, its case: the active context was switched to, not created, and a confirmed
\* !context-clear or !purge has removed all its turns.
C25_ActiveContextEmptied ==
    /\ cpc = "prompt"
    /\ current_context # "default"
    /\ current_context \notin clast.created
    /\ ~HasTurns(vhistory, current_context)
    /\ clast.command \in {"context-clear", "purge"}
    /\ clast.answer \in {"y", "yes"}

\* C21: the temperature placed in a chat-completion request is the session
\* setting 'temperature' when it is set, otherwise the temperature of llm_settings
\* in the configuration file, otherwise 0.7; and no step of a !settings command or
\* of a question changes the configuration.
C21_SessionOverridesConfig ==
    [][/\ (cpc = "ask" /\ clast'.asked)
          => clast'.temperature =
                 IF "temperature" \in DOMAIN session_settings
                 THEN <<session_settings["temperature"]>>
                 ELSE IF "temperature" \in DOMAIN config
                      THEN <<config["temperature"]>>
                      ELSE <<7>>
       /\ config' = config]_vars

\* C21, its case: a request was made with the session's temperature while the
\* configuration file gives another one.
C21_RequestWithSessionValue ==
    /\ clast.asked
    /\ "temperature" \in DOMAIN session_settings
    /\ "temperature" \in DOMAIN config
    /\ session_settings["temperature"] # config["temperature"]
    /\ clast.temperature = <<session_settings["temperature"]>>

====
